---- MODULE Spec2Model ----
(***************************************************************************)
(* A model of deidentify_fhir.py: the date codec (_parse_fhir_date,        *)
(* _format_fhir_date, shift_date), the identifier pseudonymiser, the       *)
(* offset deriver and the recursive tree rewriter.                         *)
(*                                                                         *)
(* Strings are sequences of one-character strings, so that slicing,        *)
(* suffix tests and formatting are computed character by character as      *)
(* the Python code does.  JSON values are tagged records:                  *)
(*   [t |-> "str", s |-> chars]   [t |-> "num", n |-> int]   [t |-> "null"]*)
(*   [t |-> "dict", oid |-> id, items |-> << [k |-> chars, v |-> value] >>]*)
(*   [t |-> "list", oid |-> id, elems |-> << value >>]                     *)
(* oid is the identity of the Python object holding a mapping or a list.   *)
(***************************************************************************)
EXTENDS Integers, Sequences, FiniteSets, TLC

VARIABLES
    \* ---- shift_date called on its own
    dvalue,        \* the string given to shift_date
    dparts,        \* the grammar components dvalue was written from
    doffset,       \* offset_days
    dresult,       \* what shift_date returned (or that it raised)
    \* ---- pseudonymise_identifier called on its own
    hident,        \* the identifier mapping
    hsalt,         \* the salt
    hkwargs,       \* TRUE when the caller passes hash_length=16
    hresult,       \* what the call returned (or that it raised)
    \* ---- deterministic_offset called on its own
    shaTable,      \* first four digest bytes of the inputs of interest
    osalt, opid,   \* the arguments of the last call
    oresult,       \* what the last call returned
    oseen,         \* (salt, patient_id) -> the value returned so far
    \* ---- deidentify_resource
    PHI_POLICY,    \* the module-level policy table
    HASHED_IDENTIFIER_SYSTEMS,
    resource,      \* the caller's document (as it is after the last call)
    given,         \* the document as the caller built it
    salt, shift_days, today_year,
    safe_harbor,   \* the flag of the last call
    output,        \* what the last call returned (or that it raised)
    peer,          \* a second document of the same run, naming the patient
    peer_output    \* what the call on peer returned (or that it raised)

dateVars == <<dvalue, dparts, doffset, dresult>>
hashVars == <<hident, hsalt, hkwargs, hresult>>
offVars  == <<osalt, opid, oresult, oseen>>
treeVars == <<PHI_POLICY, HASHED_IDENTIFIER_SYSTEMS, resource, given, salt,
              shift_days, today_year, safe_harbor, output, peer, peer_output>>
vars == <<dateVars, hashVars, shaTable, offVars, treeVars>>

----------------------------------------------------------------------------
(* Characters and small string helpers (Python str operations).            *)

Digits == <<"0", "1", "2", "3", "4", "5", "6", "7", "8", "9">>
UpperCase == <<"A","B","C","D","E","F","G","H","I","J","K","L","M",
               "N","O","P","Q","R","S","T","U","V","W","X","Y","Z">>
LowerCase == <<"a","b","c","d","e","f","g","h","i","j","k","l","m",
               "n","o","p","q","r","s","t","u","v","w","x","y","z">>
Punct == <<"-", ":", ".", "+", "/", "*", "_", " ">>
HexDigits == <<"0","1","2","3","4","5","6","7","8","9","a","b","c","d","e","f">>

Range(s) == {s[i] : i \in 1..Len(s)}
IndexIn(s, c) == CHOOSE i \in 1..Len(s) : s[i] = c
DigitSet == Range(Digits)
DigitValues == [c \in DigitSet |-> IndexIn(Digits, c) - 1]
IsDigit(c) == c \in DigitSet
DigitVal(c) == DigitValues[c]
AllDigits(s) == \A i \in 1..Len(s) : IsDigit(s[i])

\* int(s) for a string of decimal digits
RECURSIVE IntOf(_)
IntOf(s) == IF Len(s) = 0 THEN 0
            ELSE IntOf(SubSeq(s, 1, Len(s) - 1)) * 10 + DigitVal(s[Len(s)])

\* str(n) for n >= 0
RECURSIVE StrOfNat(_)
StrOfNat(n) == IF n < 10 THEN <<Digits[n + 1]>>
               ELSE StrOfNat(n \div 10) \o <<Digits[(n % 10) + 1]>>

\* f"{n:0wd}" for n >= 0
RECURSIVE Pad(_, _)
Pad(n, w) == LET s == StrOfNat(n) IN
             IF Len(s) >= w THEN s ELSE <<"0">> \o Pad(n, w - 1)

\* c.lower()
UpperSet == Range(UpperCase)
LowerOf == [c \in UpperSet |-> LowerCase[IndexIn(UpperCase, c)]]
LowerChar(c) == IF c \in UpperSet THEN LowerOf[c] ELSE c
Lower(s) == [i \in 1..Len(s) |-> LowerChar(s[i])]

\* s.endswith(suf)
EndsWith(s, suf) == /\ Len(s) >= Len(suf)
                    /\ SubSeq(s, Len(s) - Len(suf) + 1, Len(s)) = suf

\* s[i:] with a 0-based i >= 0
From(s, i) == SubSeq(s, i + 1, Len(s))
\* s[:i] with a 0-based i >= 0
Upto(s, i) == SubSeq(s, 1, IF i > Len(s) THEN Len(s) ELSE i)

\* s.rstrip("Z")
RECURSIVE RStripZ(_)
RStripZ(s) == IF Len(s) > 0 /\ s[Len(s)] = "Z"
              THEN RStripZ(SubSeq(s, 1, Len(s) - 1)) ELSE s

----------------------------------------------------------------------------
(* The standard library's calendar (datetime): proleptic Gregorian         *)
(* ordinals, as date.toordinal / date.fromordinal compute them.            *)

MINYEAR == 1
MAXYEAR == 9999

IsLeap(y) == (y % 4 = 0) /\ ((y % 100 # 0) \/ (y % 400 = 0))
DaysInMonth(y, m) == IF m = 2 THEN (IF IsLeap(y) THEN 29 ELSE 28)
                     ELSE IF m \in {4, 6, 9, 11} THEN 30 ELSE 31
DaysBeforeYear(y) == LET p == y - 1 IN
                     p * 365 + (p \div 4) - (p \div 100) + (p \div 400)
RECURSIVE DaysBeforeMonth(_, _)
DaysBeforeMonth(y, m) == IF m = 1 THEN 0
                         ELSE DaysBeforeMonth(y, m - 1) + DaysInMonth(y, m - 1)
ToOrdinal(y, m, d) == DaysBeforeYear(y) + DaysBeforeMonth(y, m) + d
MaxOrdinal == ToOrdinal(MAXYEAR, 12, 31)

\* date.fromordinal(n), for 1 <= n <= MaxOrdinal
FromOrdinal(n) ==
    LET y == CHOOSE yy \in ((n \div 366) + 1)..((n \div 365) + 1) :
                 /\ DaysBeforeYear(yy) < n
                 /\ n <= DaysBeforeYear(yy + 1)
        r == n - DaysBeforeYear(y)
        m == CHOOSE mm \in 1..12 :
                 /\ DaysBeforeMonth(y, mm) < r
                 /\ r <= DaysBeforeMonth(y, mm) + DaysInMonth(y, mm)
    IN [y |-> y, mo |-> m, d |-> r - DaysBeforeMonth(y, m)]

ValidDate(y, m, d) == /\ y >= MINYEAR /\ y <= MAXYEAR
                      /\ m >= 1 /\ m <= 12
                      /\ d >= 1 /\ d <= DaysInMonth(y, m)

NoDt == [ok |-> FALSE]
MkDt(y, m, d, hh, mi, ss, us) ==
    [ok |-> TRUE, y |-> y, mo |-> m, d |-> d, hh |-> hh, mi |-> mi, ss |-> ss, us |-> us]

----------------------------------------------------------------------------
(* _parse_fhir_date                                                        *)

\* the timezone designator is split off the value (lines 156-167)
SplitSuffix(value) ==
    IF EndsWith(value, <<"Z">>)
    THEN [core |-> Upto(value, Len(value) - 1), suffix |-> <<"Z">>]
    ELSE IF "+" \in Range(From(value, 10)) \/ "-" \in Range(From(value, 10))
    THEN LET cand == {i \in 10..(Len(value) - 6) : value[i + 1] \in {"+", "-"}}
         IN IF cand = {} THEN [core |-> value, suffix |-> <<>>]
            ELSE LET i == CHOOSE j \in cand : \A k \in cand : k <= j
                 IN [core |-> Upto(value, i), suffix |-> From(value, i)]
    ELSE [core |-> value, suffix |-> <<>>]

\* len(core.split(".")[1]) when "." is in core, else 0 (lines 170-172)
FracPrecision(core) ==
    IF "." \notin Range(core) THEN 0
    ELSE LET first == CHOOSE i \in 1..Len(core) :
                          core[i] = "." /\ \A j \in 1..(i - 1) : core[j] # "."
             rest == SubSeq(core, first + 1, Len(core))
         IN IF "." \notin Range(rest) THEN Len(rest)
            ELSE (CHOOSE i \in 1..Len(rest) :
                      rest[i] = "." /\ \A j \in 1..(i - 1) : rest[j] # ".") - 1

\* "YYYY-MM-DD" at the head of s, as strptime("%Y-%m-%d") and fromisoformat
\* read it
IsDateText(s) == /\ Len(s) >= 10
                 /\ AllDigits(SubSeq(s, 1, 4)) /\ s[5] = "-"
                 /\ AllDigits(SubSeq(s, 6, 7)) /\ s[8] = "-"
                 /\ AllDigits(SubSeq(s, 9, 10))

\* datetime.fromisoformat(core) for the extended format with minutes:
\* YYYY-MM-DD, one separator character, HH:MM, then optionally :SS and a
\* fraction of one or more digits after "." or "," (digits past the sixth are
\* dropped).  The other forms the library reads (basic format, hour only,
\* week dates, a core that still carries a UTC offset) are not among the
\* strings this model draws.
FromIsoFormat(core) ==
    LET n == Len(core) IN
    IF ~(n = 16 \/ n = 19 \/ n >= 21) THEN NoDt
    ELSE IF ~(/\ IsDateText(core)
              /\ AllDigits(SubSeq(core, 12, 13)) /\ core[14] = ":"
              /\ AllDigits(SubSeq(core, 15, 16))) THEN NoDt
    ELSE IF n >= 19 /\ ~(core[17] = ":" /\ AllDigits(SubSeq(core, 18, 19))) THEN NoDt
    ELSE IF n >= 21 /\ ~(core[20] \in {".", ","} /\ AllDigits(SubSeq(core, 21, n))) THEN NoDt
    ELSE LET y  == IntOf(SubSeq(core, 1, 4))
             m  == IntOf(SubSeq(core, 6, 7))
             d  == IntOf(SubSeq(core, 9, 10))
             hh == IntOf(SubSeq(core, 12, 13))
             mi == IntOf(SubSeq(core, 15, 16))
             ss == IF n >= 19 THEN IntOf(SubSeq(core, 18, 19)) ELSE 0
             fr == IF n >= 21 THEN SubSeq(core, 21, IF n > 26 THEN 26 ELSE n) ELSE <<>>
             us == IF fr = <<>> THEN 0
                   ELSE IntOf(fr \o [i \in 1..(6 - Len(fr)) |-> "0"])
         IN IF ValidDate(y, m, d) /\ hh <= 23 /\ mi <= 59 /\ ss <= 59
            THEN MkDt(y, m, d, hh, mi, ss, us) ELSE NoDt

\* lines 174-181: the parse chosen by len(core).  int(core) is modelled for
\* strings of digits; any other 4-character core is a failed parse.
ParseCore(core) ==
    IF Len(core) = 4
    THEN IF AllDigits(core) /\ ValidDate(IntOf(core), 1, 1)
         THEN MkDt(IntOf(core), 1, 1, 0, 0, 0, 0) ELSE NoDt
    ELSE IF Len(core) = 7
    THEN IF /\ AllDigits(SubSeq(core, 1, 4)) /\ core[5] = "-"
            /\ AllDigits(SubSeq(core, 6, 7))
            /\ ValidDate(IntOf(SubSeq(core, 1, 4)), IntOf(SubSeq(core, 6, 7)), 1)
         THEN MkDt(IntOf(SubSeq(core, 1, 4)), IntOf(SubSeq(core, 6, 7)), 1, 0, 0, 0, 0)
         ELSE NoDt
    ELSE IF Len(core) = 10
    THEN IF /\ IsDateText(core)
            /\ ValidDate(IntOf(SubSeq(core, 1, 4)), IntOf(SubSeq(core, 6, 7)),
                         IntOf(SubSeq(core, 9, 10)))
         THEN MkDt(IntOf(SubSeq(core, 1, 4)), IntOf(SubSeq(core, 6, 7)),
                   IntOf(SubSeq(core, 9, 10)), 0, 0, 0, 0)
         ELSE NoDt
    ELSE FromIsoFormat(core)

\* _parse_fhir_date(value): (dt or None, tz_suffix, frac_precision); any
\* exception gives (None, "", 0)
ParseFhirDate(value) ==
    LET sp == SplitSuffix(value)
        dt == ParseCore(sp.core)
    IN IF dt.ok
       THEN [dt |-> dt, suffix |-> sp.suffix, frac |-> FracPrecision(sp.core)]
       ELSE [dt |-> NoDt, suffix |-> <<>>, frac |-> 0]

----------------------------------------------------------------------------
(* _format_fhir_date and shift_date                                        *)

\* strftime("%Y"): the C library's year, which glibc does not zero-pad
StrfYear(y) == StrOfNat(y)
IsoDate(dt) == Pad(dt.y, 4) \o <<"-">> \o Pad(dt.mo, 2) \o <<"-">> \o Pad(dt.d, 2)
\* datetime.isoformat(timespec="seconds")
IsoSeconds(dt) == IsoDate(dt) \o <<"T">> \o Pad(dt.hh, 2) \o <<":">> \o Pad(dt.mi, 2)
                  \o <<":">> \o Pad(dt.ss, 2)
\* datetime.isoformat(timespec="microseconds")
IsoMicroseconds(dt) == IsoSeconds(dt) \o <<".">> \o Pad(dt.us, 6)

FormatFhirDate(original, shifted, suffix, frac_precision) ==
    LET length == Len(RStripZ(original)) IN
    IF length = 4 THEN Pad(shifted.y, 4)
    ELSE IF length = 7 THEN StrfYear(shifted.y) \o <<"-">> \o Pad(shifted.mo, 2)
    ELSE IF length = 10
    THEN StrfYear(shifted.y) \o <<"-">> \o Pad(shifted.mo, 2) \o <<"-">> \o Pad(shifted.d, 2)
    ELSE IF frac_precision > 0
    THEN LET iso == IsoMicroseconds(shifted)
         IN (IF frac_precision < 6
             THEN SubSeq(iso, 1, Len(iso) - (6 - frac_precision)) ELSE iso) \o suffix
    ELSE IsoSeconds(shifted) \o suffix

Raised == [raised |-> TRUE]
Returned(s) == [raised |-> FALSE, s |-> s]

\* dt + timedelta(days=offset_days): OverflowError outside years 1..9999
AddDays(dt, offset_days) ==
    LET ord == ToOrdinal(dt.y, dt.mo, dt.d) + offset_days IN
    IF ord < 1 \/ ord > MaxOrdinal THEN NoDt
    ELSE LET ymd == FromOrdinal(ord)
         IN MkDt(ymd.y, ymd.mo, ymd.d, dt.hh, dt.mi, dt.ss, dt.us)

ShiftDate(value, offset_days, collapse_to_year) ==
    LET p == ParseFhirDate(value) IN
    IF ~p.dt.ok THEN Returned(value)
    ELSE IF collapse_to_year THEN Returned(Pad(p.dt.y, 4))
    ELSE LET shifted == AddDays(p.dt, offset_days)
         IN IF ~shifted.ok THEN Raised
            ELSE Returned(FormatFhirDate(value, shifted, p.suffix, p.frac))

----------------------------------------------------------------------------
(* shift_date called on its own: the strings of the temporal grammar are   *)
(* written from their components, and a few strings outside it are given   *)
(* as they are.                                                            *)

MaxShiftDays == 90
Years == {2023, 2024}
Months == {1, 2, 12}
Days == {1, 29, 31}
Clock == {<<0, 0>>, <<23, 59>>}
Seconds == {0, 59}
Fractions == {<<>>, <<"1">>, <<"1", "2", "3">>, <<"0", "0", "0", "0", "0", "0">>,
              <<"9", "9", "9", "9", "9", "9">>}
Suffixes == {<<>>, <<"Z">>, <<"+", "0", "2", ":", "0", "0">>,
             <<"-", "0", "7", ":", "0", "0">>}
Offsets == {0 - MaxShiftDays, -1, 0, 1, MaxShiftDays}

Parts(shape, y, mo, d, hh, mi, hasSec, ss, frac, suffix, raw) ==
    [shape |-> shape, y |-> y, mo |-> mo, d |-> d, hh |-> hh, mi |-> mi,
     hasSec |-> hasSec, ss |-> ss, frac |-> frac, suffix |-> suffix, raw |-> raw]

YearParts == {Parts("Y", y, 1, 1, 0, 0, FALSE, 0, <<>>, <<>>, <<>>) : y \in Years}
MonthParts == {Parts("YM", y, mo, 1, 0, 0, FALSE, 0, <<>>, <<>>, <<>>) :
                   y \in Years, mo \in Months}
DayParts == {Parts("YMD", ymd[1], ymd[2], ymd[3], 0, 0, FALSE, 0, <<>>, <<>>, <<>>) :
                 ymd \in {x \in Years \X Months \X Days : ValidDate(x[1], x[2], x[3])}}
MinuteParts == {Parts("DT", p.y, p.mo, p.d, c[1], c[2], FALSE, 0, <<>>, z, <<>>) :
                    p \in DayParts, c \in Clock, z \in Suffixes}
SecondParts == {Parts("DT", p.y, p.mo, p.d, c[1], c[2], TRUE, sf[1], sf[2], z, <<>>) :
                    p \in DayParts, c \in Clock, sf \in Seconds \X Fractions, z \in Suffixes}
RawStrings == {<<>>, <<"a", "b", "c", "d">>,
               <<"0", "0", "0", "0">>,
               <<"2", "0", "2", "4", "-", "1", "3">>,
               <<"2", "0", "2", "4", "-", "0", "2", "-", "3", "0">>,
               <<"9", "9", "9", "9", "-", "1", "2", "-", "3", "1">>,
               <<"2", "0", "2", "4", "-", "0", "1", "-", "0", "1", "T", "2", "4", ":", "0", "0">>}
RawParts == {Parts("raw", 0, 0, 0, 0, 0, FALSE, 0, <<>>, <<>>, r) : r \in RawStrings}
GrammarParts == YearParts \cup MonthParts \cup DayParts \cup MinuteParts \cup SecondParts

\* the text of a temporal value
Render(p) ==
    IF p.shape = "raw" THEN p.raw
    ELSE IF p.shape = "Y" THEN Pad(p.y, 4)
    ELSE IF p.shape = "YM" THEN Pad(p.y, 4) \o <<"-">> \o Pad(p.mo, 2)
    ELSE IF p.shape = "YMD"
    THEN Pad(p.y, 4) \o <<"-">> \o Pad(p.mo, 2) \o <<"-">> \o Pad(p.d, 2)
    ELSE Pad(p.y, 4) \o <<"-">> \o Pad(p.mo, 2) \o <<"-">> \o Pad(p.d, 2) \o <<"T">>
         \o Pad(p.hh, 2) \o <<":">> \o Pad(p.mi, 2)
         \o (IF p.hasSec THEN <<":">> \o Pad(p.ss, 2) ELSE <<>>)
         \o (IF p.frac # <<>> THEN <<".">> \o p.frac ELSE <<>>)
         \o p.suffix

IdleDate == /\ dvalue = <<>>
            /\ dparts = Parts("none", 0, 0, 0, 0, 0, FALSE, 0, <<>>, <<>>, <<>>)
            /\ doffset = 0
            /\ dresult = [called |-> "no"]
IdleHash == /\ hident = [t |-> "null"] /\ hsalt = <<>> /\ hkwargs = FALSE
            /\ hresult = [called |-> FALSE]
NoTable == [x \in {} |-> <<>>]
IdleOffset == /\ osalt = <<>> /\ opid = <<>> /\ oresult = [called |-> FALSE]
              /\ oseen = NoTable
IdleTree == /\ PHI_POLICY = <<>> /\ HASHED_IDENTIFIER_SYSTEMS = {}
            /\ resource = [t |-> "null"] /\ given = [t |-> "null"]
            /\ salt = <<>> /\ shift_days = [none |-> TRUE] /\ today_year = 0
            /\ safe_harbor = FALSE /\ output = [called |-> FALSE]
            /\ peer = [t |-> "null"] /\ peer_output = [called |-> FALSE]

InitDate == /\ dparts \in GrammarParts \cup RawParts
            /\ dvalue = Render(dparts)
            /\ doffset \in Offsets
            /\ dresult = [called |-> "no"]
            /\ IdleHash /\ IdleOffset /\ IdleTree /\ shaTable = NoTable

\* shift_date(value, offset_days)
DateShift ==
    /\ dresult.called = "no"
    /\ dresult' = [called |-> "shift", r |-> ShiftDate(dvalue, doffset, FALSE)]
    /\ UNCHANGED <<dvalue, dparts, doffset, hashVars, shaTable, offVars, treeVars>>

\* shift_date(value, offset_days, collapse_to_year=True)
DateCollapse ==
    /\ dresult.called = "no"
    /\ dresult' = [called |-> "collapse", r |-> ShiftDate(dvalue, doffset, TRUE)]
    /\ UNCHANGED <<dvalue, dparts, doffset, hashVars, shaTable, offVars, treeVars>>

NextDate == DateShift \/ DateCollapse
SpecDate == InitDate /\ [][NextDate]_vars

\* the components of p moved by n days (NoDt past year 9999 or before year 1)
MovedParts(p, n) ==
    LET ord == ToOrdinal(p.y, p.mo, p.d) + n
        ymd == FromOrdinal(ord)
    IN [p EXCEPT !.y = ymd.y, !.mo = ymd.mo, !.d = ymd.d]

\* C4: for every string x of the temporal grammar and every offset d,
\* shift_date(x, d) is x's instant plus d days written in x's own shape:
\* the same precision, the same timezone suffix, the same fractional digits;
\* shift_date(x, 0) is x itself.
C4_ShiftKeepsShape ==
    (dresult.called = "shift" /\ dparts.shape \in {"Y", "YM", "YMD", "DT"})
        => /\ ~dresult.r.raised
           /\ dresult.r.s = Render(MovedParts(dparts, doffset))
           /\ (doffset = 0 => dresult.r.s = dvalue)

\* the same statement for the values that carry seconds (or no time at all)
C4_ShiftKeepsShapeWithSeconds ==
    (dresult.called = "shift" /\ dparts.shape \in {"Y", "YM", "YMD", "DT"}
        /\ (dparts.shape = "DT" => dparts.hasSec))
        => /\ ~dresult.r.raised
           /\ dresult.r.s = Render(MovedParts(dparts, doffset))
           /\ (doffset = 0 => dresult.r.s = dvalue)

----------------------------------------------------------------------------
(* JSON values                                                             *)

Null == [t |-> "null"]
Str(s) == [t |-> "str", s |-> s]
Num(n) == [t |-> "num", n |-> n]
Dict(oid, items) == [t |-> "dict", oid |-> oid, items |-> items]
List(oid, elems) == [t |-> "list", oid |-> oid, elems |-> elems]
KV(k, v) == [k |-> k, v |-> v]

\* key in d
HasKey(d, key) == \E i \in 1..Len(d.items) : d.items[i].k = key
\* d.get(key): None when the key is absent
Get(d, key) == IF HasKey(d, key)
               THEN d.items[CHOOSE i \in 1..Len(d.items) : d.items[i].k = key].v
               ELSE Null
\* d.get(key, "")
GetOrEmpty(d, key) == IF HasKey(d, key) THEN Get(d, key) ELSE Str(<<>>)

\* str(v) for the scalars an identifier value is drawn from
PyStr(v) == IF v.t = "str" THEN v.s
            ELSE IF v.t = "num" THEN StrOfNat(v.n)
            ELSE <<"N", "o", "n", "e">>

\* the number of mappings and lists a document may hold; the objects of a
\* document are numbered 1..MaxObjects and an object made during a call is
\* numbered past them
MaxObjects == 50
\* the object a `{}` or a list display creates while node oid is rewritten
Fresh(oid) == oid + MaxObjects
\* the `masked` mapping pseudonymise_identifier creates for identifier oid
FreshMasked(oid) == oid + 2 * MaxObjects

----------------------------------------------------------------------------
(* hashlib.sha256.  The digest is not computed: it is a fixed 32-byte      *)
(* function of the input, whose first four bytes are those of shaTable for *)
(* the inputs shaTable lists.                                              *)

Alphabet == Digits \o UpperCase \o LowerCase \o Punct
CharCodes == [c \in Range(Alphabet) |-> IndexIn(Alphabet, c)]
CharCode(c) == CharCodes[c]
RECURSIVE Mix(_)
Mix(data) == IF Len(data) = 0 THEN 7
             ELSE (Mix(SubSeq(data, 1, Len(data) - 1)) * 31 + CharCode(data[Len(data)])) % 65521

\* hashlib.sha256(data.encode()).digest()
Sha256Digest(data) ==
    LET m == Mix(data)
        listed == data \in DOMAIN shaTable
    IN [i \in 1..32 |-> IF i <= 4 /\ listed THEN shaTable[data][i]
                        ELSE (m * (i + 2) + 7 * i) % 256]
\* .hexdigest()
Sha256HexDigest(data) ==
    LET h == Sha256Digest(data) IN
    [i \in 1..64 |-> IF i % 2 = 1 THEN HexDigits[(h[(i + 1) \div 2] \div 16) + 1]
                     ELSE HexDigits[(h[i \div 2] % 16) + 1]]

\* sha256_hash(value, salt)
Sha256Hash(value, salt_) == Upto(Sha256HexDigest(salt_ \o value), 16)

\* pseudonymise_identifier(identifier, salt): {} when there is no value
PseudonymiseIdentifier(identifier, salt_) ==
    LET original == Get(identifier, <<"v", "a", "l", "u", "e">>) IN
    IF original.t = "null" THEN Dict(FreshMasked(identifier.oid), <<>>)
    ELSE LET masked_value == Sha256Hash(PyStr(original), salt_)
             system == <<"s", "y", "s", "t", "e", "m">>
         IN Dict(FreshMasked(identifier.oid),
                 <<KV(<<"v", "a", "l", "u", "e">>, Str(masked_value))>>
                 \o (IF HasKey(identifier, system)
                     THEN <<KV(system, Get(identifier, system))>> ELSE <<>>))

----------------------------------------------------------------------------
(* deterministic_offset                                                    *)

OffsetModulus == 181
OffsetBias == 90

\* int.from_bytes(b, "big") % m.  The unsigned 32-bit value does not fit the
\* checker's integers, so it is reduced byte by byte (Python's integers are
\* unbounded: the remainder is the same).
RECURSIVE IntFromBytesMod(_, _)
IntFromBytesMod(b, m) ==
    IF Len(b) = 0 THEN 0
    ELSE (IntFromBytesMod(SubSeq(b, 1, Len(b) - 1), m) * 256 + b[Len(b)]) % m

DeterministicOffset182(base_salt, patient_id) ==
    LET h == Sha256Digest(base_salt \o patient_id)
    IN IntFromBytesMod(SubSeq(h, 1, 4), OffsetModulus + 1) - OffsetBias

DeterministicOffset(base_salt, patient_id) ==
    LET h == Sha256Digest(base_salt \o patient_id)
    IN IntFromBytesMod(SubSeq(h, 1, 4), OffsetModulus) - OffsetBias

----------------------------------------------------------------------------
(* pseudonymise_identifier called on its own                               *)

K_value == <<"v", "a", "l", "u", "e">>
K_system == <<"s", "y", "s", "t", "e", "m">>
K_use == <<"u", "s", "e">>
S_mrn1 == <<"h","t","t","p",":","/","/","h","o","s","p","i","t","a","l",".",
            "e","x","a","m","p","l","e",".","o","r","g","/","m","r","n">>
S_mrn2 == <<"u","r","n",":","s","y","s","t","e","m",":","m","r","n">>
S_other == <<"h","t","t","p",":","/","/","e","x","a","m","p","l","e",".",
             "o","r","g","/","o","t","h","e","r">>
S_12345 == <<"1", "2", "3", "4", "5">>

Salts == {<<"s">>, <<"s", "3", "c", "r", "3", "t">>}
IdentValues == {<<>>, <<KV(K_value, Null)>>, <<KV(K_value, Str(S_12345))>>,
                <<KV(K_value, Str(<<>>))>>, <<KV(K_value, Str(<<"x">>))>>,
                <<KV(K_value, Num(12345))>>, <<KV(K_value, Num(0))>>}
IdentSystems == {<<>>, <<KV(K_system, Str(S_mrn1))>>, <<KV(K_system, Str(S_mrn2))>>,
                 <<KV(K_system, Str(S_other))>>, <<KV(K_system, Str(<<>>))>>}
IdentExtras == {<<>>, <<KV(K_use, Str(<<"o", "l", "d">>))>>}
Identifiers == {Dict(1, sy \o va \o ex) :
                    sy \in IdentSystems, va \in IdentValues, ex \in IdentExtras}

InitHash == /\ hident \in Identifiers
            /\ hsalt \in Salts
            /\ hkwargs \in BOOLEAN
            /\ hresult = [called |-> FALSE]
            /\ IdleDate /\ IdleOffset /\ IdleTree /\ shaTable = NoTable

\* pseudonymise_identifier(ident, salt) or, with hkwargs,
\* pseudonymise_identifier(ident, salt, hash_length=16): the function takes
\* (identifier, salt) only, so the keyword is a TypeError at the call
PseudonymiseCall ==
    /\ ~hresult.called
    /\ hresult' = IF hkwargs THEN [called |-> TRUE, raised |-> TRUE]
                  ELSE [called |-> TRUE, raised |-> FALSE,
                        masked |-> PseudonymiseIdentifier(hident, hsalt)]
    /\ UNCHANGED <<hident, hsalt, hkwargs, dateVars, shaTable, offVars, treeVars>>

NextHash == PseudonymiseCall
SpecHash == InitHash /\ [][NextHash]_vars

\* C7: pseudonymise_identifier takes hash_length: with hash_length=16 the
\* masked value of an identifier that has a value is 16 characters long, and
\* without it the masked value is the full 64-character hex digest.
C7_HashLength ==
    (hresult.called /\ Get(hident, K_value).t # "null")
        => /\ ~hresult.raised
           /\ Len(Get(hresult.masked, K_value).s) = (IF hkwargs THEN 16 ELSE 64)

----------------------------------------------------------------------------
(* deterministic_offset called on its own.  shaTable gives the first four  *)
(* digest bytes of every input the calls can hash.                         *)

OffsetSalts == {<<"s">>, <<"s", "1">>}
OffsetSubjects == {<<"p">>, <<"1", "p">>}
ByteQuads == {<<0, 0, 0, 0>>, <<0, 0, 0, 180>>, <<0, 0, 0, 181>>,
              <<0, 0, 1, 0>>, <<255, 255, 255, 255>>}
NotSeen == [seen |-> FALSE]

InitOffset == /\ shaTable \in [{sp[1] \o sp[2] : sp \in OffsetSalts \X OffsetSubjects}
                                  -> ByteQuads]
              /\ osalt = <<>> /\ opid = <<>>
              /\ oresult = [called |-> FALSE]
              /\ oseen = [sp \in OffsetSalts \X OffsetSubjects |-> NotSeen]
              /\ IdleDate /\ IdleHash /\ IdleTree

\* d = deterministic_offset(s, p); oseen keeps the first value returned for
\* each pair
OffsetCall(s, p) ==
    \E d \in {DeterministicOffset(s, p)} :
    /\ osalt' = s /\ opid' = p
    /\ oresult' = [called |-> TRUE, d |-> d]
    /\ oseen' = IF oseen[<<s, p>>].seen THEN oseen
                ELSE [oseen EXCEPT ![<<s, p>>] = [seen |-> TRUE, d |-> d]]
    /\ UNCHANGED <<shaTable, dateVars, hashVars, treeVars>>

NextOffset == \E s \in OffsetSalts, p \in OffsetSubjects : OffsetCall(s, p)
SpecOffset == InitOffset /\ [][NextOffset]_vars

\* C10: deterministic_offset returns d with -90 <= d <= 90, d being the
\* first four digest bytes read as a big-endian unsigned integer, modulo 181,
\* minus 90; a (secret, subject) pair that was given before gets the value it
\* got before.
C10_OffsetRange ==
    oresult.called =>
        LET q == shaTable[osalt \o opid]
            hi == q[1] * 256 + q[2]
            lo == q[3] * 256 + q[4]
        IN /\ oresult.d \in -90..90
           /\ oresult.d = ((((hi % 181) * (65536 % 181)) + lo) % 181) - 90
           /\ oseen[<<osalt, opid>>].seen
           /\ oseen[<<osalt, opid>>].d = oresult.d

\* a call returned each end of the range, once for a pair given a second time
C10_Witness ==
    /\ oresult.called /\ oresult.d = 90
    /\ \E sp \in OffsetSalts \X OffsetSubjects : oseen[sp].seen /\ oseen[sp].d = -90
    /\ osalt = <<"s">> /\ opid = <<"1", "p">> /\ oseen[<<(<<"s", "1">>), (<<"p">>)>>].seen

----------------------------------------------------------------------------
(* Configuration (lines 50-104)                                            *)

K_resourceType == <<"r", "e", "s", "o", "u", "r", "c", "e", "T", "y", "p", "e">>
K_identifier == <<"i", "d", "e", "n", "t", "i", "f", "i", "e", "r">>
K_birthDate == <<"b", "i", "r", "t", "h", "D", "a", "t", "e">>
K_name == <<"n", "a", "m", "e">>
K_id == <<"i", "d">>
K_subject == <<"s", "u", "b", "j", "e", "c", "t">>
K_patient == <<"p", "a", "t", "i", "e", "n", "t">>
K_reference == <<"r", "e", "f", "e", "r", "e", "n", "c", "e">>
T_Patient == <<"P", "a", "t", "i", "e", "n", "t">>
T_Encounter == <<"E", "n", "c", "o", "u", "n", "t", "e", "r">>
T_Star == <<"*">>

PolicyTags == {T_Patient, <<"P", "r", "a", "c", "t", "i", "t", "i", "o", "n", "e", "r">>, <<"P", "r", "a", "c", "t", "i", "t", "i", "o", "n", "e", "r", "R", "o", "l", "e">>, <<"O", "r", "g", "a", "n", "i", "z", "a", "t", "i", "o", "n">>,
               <<"E", "n", "d", "p", "o", "i", "n", "t">>, <<"D", "e", "v", "i", "c", "e">>, T_Encounter, <<"L", "o", "c", "a", "t", "i", "o", "n">>, <<"C", "l", "a", "i", "m">>,
               <<"O", "b", "s", "e", "r", "v", "a", "t", "i", "o", "n">>, <<"C", "o", "n", "d", "i", "t", "i", "o", "n">>, <<"M", "e", "d", "i", "c", "a", "t", "i", "o", "n", "R", "e", "q", "u", "e", "s", "t">>,
               <<"I", "m", "a", "g", "i", "n", "g", "S", "t", "u", "d", "y">>, T_Star}

BuiltinPolicy ==
    [tag \in PolicyTags |->
        IF tag = T_Patient
        THEN <<K_identifier, K_name, <<"t", "e", "l", "e", "c", "o", "m">>, <<"a", "d", "d", "r", "e", "s", "s">>, <<"p", "h", "o", "t", "o">>, K_birthDate,
               <<"c", "o", "n", "t", "a", "c", "t">>, <<"c", "o", "m", "m", "u", "n", "i", "c", "a", "t", "i", "o", "n">>, <<"m", "u", "l", "t", "i", "p", "l", "e", "B", "i", "r", "t", "h", "B", "o", "o", "l", "e", "a", "n">>,
               <<"m", "u", "l", "t", "i", "p", "l", "e", "B", "i", "r", "t", "h", "I", "n", "t", "e", "g", "e", "r">>, <<"g", "e", "n", "e", "r", "a", "l", "P", "r", "a", "c", "t", "i", "t", "i", "o", "n", "e", "r">>,
               <<"m", "a", "n", "a", "g", "i", "n", "g", "O", "r", "g", "a", "n", "i", "z", "a", "t", "i", "o", "n">>, <<"l", "i", "n", "k">>>>
        ELSE IF tag = <<"P", "r", "a", "c", "t", "i", "t", "i", "o", "n", "e", "r">>
        THEN <<K_identifier, K_name, <<"t", "e", "l", "e", "c", "o", "m">>, <<"a", "d", "d", "r", "e", "s", "s">>, <<"p", "h", "o", "t", "o">>>>
        ELSE IF tag = <<"P", "r", "a", "c", "t", "i", "t", "i", "o", "n", "e", "r", "R", "o", "l", "e">> THEN <<<<"t", "e", "l", "e", "c", "o", "m">>, <<"p", "h", "o", "n", "e">>, <<"a", "d", "d", "r", "e", "s", "s">>>>
        ELSE IF tag = <<"O", "r", "g", "a", "n", "i", "z", "a", "t", "i", "o", "n">> THEN <<K_identifier, <<"t", "e", "l", "e", "c", "o", "m">>, <<"a", "d", "d", "r", "e", "s", "s">>>>
        ELSE IF tag = <<"E", "n", "d", "p", "o", "i", "n", "t">> THEN <<<<"a", "d", "d", "r", "e", "s", "s">>>>
        ELSE IF tag = <<"D", "e", "v", "i", "c", "e">> THEN <<K_identifier, <<"u", "d", "i", "C", "a", "r", "r", "i", "e", "r">>>>
        ELSE IF tag = T_Encounter THEN <<K_identifier, <<"l", "o", "c", "a", "t", "i", "o", "n">>>>
        ELSE IF tag = <<"L", "o", "c", "a", "t", "i", "o", "n">> THEN <<K_identifier, <<"a", "d", "d", "r", "e", "s", "s">>, <<"t", "e", "l", "e", "c", "o", "m">>>>
        ELSE <<K_identifier>>]

BuiltinHashedSystems == {S_mrn1, S_mrn2}

DATE_KEY_SUFFIXES == {<<"d", "a", "t", "e">>, <<"d", "a", "t", "e", "t", "i", "m", "e">>, <<"i", "n", "s", "t", "a", "n", "t">>}

\* "Z" or "+HH:MM" or "-HH:MM"
IsTzText(z) == \/ z = <<"Z">>
               \/ /\ Len(z) = 6 /\ z[1] \in {"+", "-"}
                  /\ IsDigit(z[2]) /\ IsDigit(z[3]) /\ z[4] = ":"
                  /\ IsDigit(z[5]) /\ IsDigit(z[6])

\* the tail of FHIR_DATE_RE after "THH:MM":
\* (:\d{2}(?:\.\d{1,6})?)?(Z|[+-]\d{2}:\d{2})?
IsSecondsTzText(a) ==
    \/ a = <<>>
    \/ IsTzText(a)
    \/ /\ Len(a) >= 3 /\ a[1] = ":" /\ IsDigit(a[2]) /\ IsDigit(a[3])
       /\ LET b == From(a, 3) IN
          \/ b = <<>>
          \/ IsTzText(b)
          \/ /\ Len(b) >= 2 /\ b[1] = "."
             /\ \E k \in 1..6 :
                   /\ k + 1 <= Len(b)
                   /\ AllDigits(SubSeq(b, 2, k + 1))
                   /\ (From(b, k + 1) = <<>> \/ IsTzText(From(b, k + 1)))

\* FHIR_DATE_RE.fullmatch(val)
FhirDateRe(val) ==
    /\ Len(val) >= 7
    /\ AllDigits(SubSeq(val, 1, 4)) /\ val[5] = "-" /\ AllDigits(SubSeq(val, 6, 7))
    /\ \/ Len(val) = 7
       \/ /\ Len(val) >= 10 /\ val[8] = "-" /\ AllDigits(SubSeq(val, 9, 10))
          /\ \/ Len(val) = 10
             \/ /\ Len(val) >= 16 /\ val[11] = "T"
                /\ IsDigit(val[12]) /\ IsDigit(val[13]) /\ val[14] = ":"
                /\ IsDigit(val[15]) /\ IsDigit(val[16])
                /\ IsSecondsTzText(From(val, 16))

\* line 270: key_lower.endswith(DATE_KEY_SUFFIXES) or FHIR_DATE_RE.fullmatch(val)
LooksLikeDate(key, val) ==
    \/ \E suf \in DATE_KEY_SUFFIXES : EndsWith(Lower(key), suf)
    \/ FhirDateRe(val)

----------------------------------------------------------------------------
(* recursively_deidentify and deidentify_resource                          *)

RaiseV == [t |-> "raise"]

\* bool(v)
Truthy(v) == IF v.t = "null" THEN FALSE
             ELSE IF v.t = "str" THEN v.s # <<>>
             ELSE IF v.t = "num" THEN v.n # 0
             ELSE IF v.t = "dict" THEN v.items # <<>>
             ELSE v.elems # <<>>
\* a value that cannot be a dict key or a set member (TypeError: unhashable)
Unhashable(v) == v.t \in {"dict", "list"}

\* a lookup that never finds the tag
PolicyLookupNone(table, resource_type) == [shared |-> FALSE, tag |-> <<>>, items |-> <<>>]
\* PHI_POLICY.get(resource_type, []): the table's own list for the tag, or a
\* new empty list
PolicyLookup(table, resource_type) ==
    IF resource_type.t = "str" /\ resource_type.s \in DOMAIN table
    THEN [shared |-> TRUE, tag |-> resource_type.s, items |-> table[resource_type.s]]
    ELSE [shared |-> FALSE, tag |-> <<>>, items |-> <<>>]

\* a list object used without being copied: writes to it are writes to the table
ListAlias(ref) == ref
\* list(x): a new list holding x's items
ListCopy(ref) == [ref EXCEPT !.shared = FALSE]

\* list.remove(x): the first occurrence goes
RemoveFirst(seq, x) ==
    LET i == CHOOSE j \in 1..Len(seq) : seq[j] = x /\ \A k \in 1..(j - 1) : seq[k] # x
    IN SubSeq(seq, 1, i - 1) \o SubSeq(seq, i + 1, Len(seq))

\* PHI_POLICY.get("*", []) when resource_type != "*" (lines 239-241)
Wildcard(table, resource_type) ==
    IF resource_type # Str(T_Star) /\ T_Star \in DOMAIN table THEN table[T_Star] ELSE <<>>

\* lines 238-243: the fields to strip for a mapping of this type, and the
\* policy table as these statements leave it
ResolvePhiFields(table, resource_type, sh) ==
    LET ref == ListCopy(PolicyLookup(table, resource_type))
        star == Wildcard(table, resource_type)
        extended == ref.items \o SelectSeq(star, LAMBDA f : f \notin Range(ref.items))
        final == IF sh /\ K_birthDate \in Range(extended)
                 THEN RemoveFirst(extended, K_birthDate) ELSE extended
    IN [fields |-> final,
        table |-> IF ref.shared THEN [table EXCEPT ![ref.tag] = final] ELSE table]

\* a truthy system passes whatever the allowlist holds
AnySystem(system, systems) == TRUE
\* system in HASHED_IDENTIFIER_SYSTEMS (line 257, after `system and`)
SystemRetained(system, systems) == system.t = "str" /\ system.s \in systems

NothingKept == [raised |-> FALSE, kept |-> <<>>]
\* lines 254-260, one element of `identifiers`
ProcessIdentifier(ident, salt_, systems) ==
    IF ident.t # "dict" THEN [raised |-> TRUE, kept |-> <<>>]
    ELSE LET system == Get(ident, K_system) IN
         IF ~Truthy(system) THEN NothingKept
         ELSE IF Unhashable(system) THEN [raised |-> TRUE, kept |-> <<>>]
         ELSE IF SystemRetained(system, systems)
         THEN LET processed == PseudonymiseIdentifier(ident, salt_)
              IN IF Truthy(processed) THEN [raised |-> FALSE, kept |-> <<processed>>]
                 ELSE NothingKept
         ELSE NothingKept

RECURSIVE ConcatKept(_)
ConcatKept(rs) == IF Len(rs) = 0 THEN <<>> ELSE rs[1].kept \o ConcatKept(Tail(rs))

\* lines 250-263: what new_obj gets under "identifier" (nothing when `kept`
\* is empty), or that an element raised
KeepIdentifiers(val, salt_, systems) ==
    LET identifiers == IF val.t = "list" THEN val.elems ELSE <<val>>
        rs == [i \in 1..Len(identifiers) |-> ProcessIdentifier(identifiers[i], salt_, systems)]
        kept == ConcatKept(rs)
    IN IF \E i \in 1..Len(rs) : rs[i].raised THEN [raised |-> TRUE, set |-> FALSE]
       ELSE IF kept = <<>> THEN [raised |-> FALSE, set |-> FALSE]
       ELSE [raised |-> FALSE, set |-> TRUE,
             v |-> IF val.t = "list" THEN List(Fresh(val.oid), kept) ELSE kept[1]]

AgeBinThreshold == 90
\* binned only past the threshold
AgeOver(age) == age > AgeBinThreshold
\* age >= 90 (line 278)
AgeBinned(age) == age >= AgeBinThreshold

\* lines 274-281
AgeBin(key, shifted_val, sh, year_now) ==
    IF sh /\ key = K_birthDate
    THEN LET head == Upto(shifted_val, 4) IN
         IF Len(head) > 0 /\ AllDigits(head) /\ AgeBinned(year_now - IntOf(head))
         THEN <<"1", "9", "0", "0">> ELSE shifted_val
    ELSE shifted_val

\* the object `new_obj = {}` or the list comprehension creates for obj
NewObject(obj) == Fresh(obj.oid)

RECURSIVE RecursivelyDeidentify(_, _, _)
RECURSIVE RewriteItems(_, _, _, _, _, _)
RECURSIVE RewriteElems(_, _, _, _, _)

\* the loop of lines 246-291 from item i on; new_items is new_obj so far.
\* ctx holds salt, offset_days, collapse_dates, safe_harbor, the allowlist and
\* the current year.
RewriteItems(obj, i, new_items, phi_fields, ctx, table) ==
    IF i > Len(obj.items) THEN [v |-> Dict(NewObject(obj), new_items), table |-> table]
    ELSE LET key == obj.items[i].k
             val == obj.items[i].v
         IN IF key \in Range(phi_fields)
            THEN IF key = K_identifier
                 THEN LET r == KeepIdentifiers(val, ctx.salt, ctx.systems) IN
                      IF r.raised THEN [v |-> RaiseV, table |-> table]
                      ELSE RewriteItems(obj, i + 1,
                               IF r.set THEN Append(new_items, KV(key, r.v)) ELSE new_items,
                               phi_fields, ctx, table)
                 ELSE RewriteItems(obj, i + 1, new_items, phi_fields, ctx, table)
            ELSE IF /\ val.t = "str"
                    /\ LooksLikeDate(key, val.s)
                    /\ ParseFhirDate(val.s).dt.ok
            THEN LET sv == ShiftDate(val.s, ctx.offset, ctx.collapse) IN
                 IF sv.raised THEN [v |-> RaiseV, table |-> table]
                 ELSE RewriteItems(obj, i + 1,
                          Append(new_items, KV(key, Str(AgeBin(key, sv.s, ctx.sh, ctx.year)))),
                          phi_fields, ctx, table)
            ELSE LET r == RecursivelyDeidentify(val, ctx, table) IN
                 IF r.v.t = "raise" THEN r
                 ELSE RewriteItems(obj, i + 1, Append(new_items, KV(key, r.v)),
                                   phi_fields, ctx, r.table)

\* the list comprehension of lines 294-299 from element i on
RewriteElems(obj, i, new_elems, ctx, table) ==
    IF i > Len(obj.elems) THEN [v |-> List(NewObject(obj), new_elems), table |-> table]
    ELSE LET r == RecursivelyDeidentify(obj.elems[i], ctx, table) IN
         IF r.v.t = "raise" THEN r
         ELSE RewriteElems(obj, i + 1, Append(new_elems, r.v), ctx, r.table)

\* recursively_deidentify: the value returned (RaiseV when an exception
\* leaves the call) and the policy table afterwards
RecursivelyDeidentify(obj, ctx, table) ==
    IF obj.t = "dict"
    THEN LET resource_type == Get(obj, K_resourceType) IN
         IF Unhashable(resource_type) THEN [v |-> RaiseV, table |-> table]
         ELSE LET p == ResolvePhiFields(table, resource_type, ctx.sh)
              IN RewriteItems(obj, 1, <<>>, p.fields, ctx, p.table)
    ELSE IF obj.t = "list" THEN RewriteElems(obj, 1, <<>>, ctx, table)
    ELSE [v |-> obj, table |-> table]

NoShift == [none |-> TRUE]
Shift(n) == [none |-> FALSE, n |-> n]

\* lines 320-331: the subject identifier the offset is derived from
PatientId(res) ==
    IF Get(res, K_resourceType) = Str(T_Patient) THEN GetOrEmpty(res, K_id)
    ELSE LET s1 == Get(res, K_subject)
             s2 == Get(res, K_patient)
             subject == IF Truthy(s1) THEN s1 ELSE IF Truthy(s2) THEN s2 ELSE Str(<<>>)
         IN IF subject.t = "dict" THEN GetOrEmpty(subject, K_reference)
            ELSE IF subject.t = "str" THEN subject
            ELSE Str(<<>>)

\* deidentify_resource(resource, salt, shift_days, safe_harbor=sh)
\* the dates are never collapsed
NeverCollapse(sh) == FALSE
\* lines 332-337: collapse is True under safe_harbor and False otherwise
CollapseDates(sh) == sh

DeidentifyResource(res, salt_, shift, sh, table, systems, year_now) ==
    LET patient_id == PatientId(res)
        derive == ~sh /\ shift.none
    IN IF derive /\ patient_id.t # "str" THEN [v |-> RaiseV, table |-> table]
       ELSE LET offset == IF sh THEN 0
                          ELSE IF ~shift.none THEN shift.n
                          ELSE DeterministicOffset(salt_, patient_id.s)
                ctx == [salt |-> salt_, offset |-> offset, collapse |-> CollapseDates(sh),
                        sh |-> sh, systems |-> systems, year |-> year_now]
            IN RecursivelyDeidentify(res, ctx, table)

\* the mappings and lists of a value
RECURSIVE Objects(_)
Objects(v) ==
    IF v.t = "dict"
    THEN {v} \cup UNION {Objects(v.items[i].v) : i \in 1..Len(v.items)}
    ELSE IF v.t = "list"
    THEN {v} \cup UNION {Objects(v.elems[i]) : i \in 1..Len(v.elems)}
    ELSE {}
RECURSIVE Oids(_)
Oids(v) ==
    IF v.t = "dict"
    THEN {v.oid} \cup UNION {Oids(v.items[i].v) : i \in 1..Len(v.items)}
    ELSE IF v.t = "list"
    THEN {v.oid} \cup UNION {Oids(v.elems[i]) : i \in 1..Len(v.elems)}
    ELSE {}

\* the caller's document after a call that returned out: an object of the
\* document that is also an object of out holds what the call wrote to it
RECURSIVE WrittenThrough(_, _)
WrittenThrough(v, objs) ==
    IF v.t \in {"dict", "list"} /\ \E o \in objs : o.oid = v.oid
    THEN CHOOSE o \in objs : o.oid = v.oid
    ELSE IF v.t = "dict"
    THEN [v EXCEPT !.items = [i \in 1..Len(v.items) |->
                                 KV(v.items[i].k, WrittenThrough(v.items[i].v, objs))]]
    ELSE IF v.t = "list"
    THEN [v EXCEPT !.elems = [i \in 1..Len(v.elems) |-> WrittenThrough(v.elems[i], objs)]]
    ELSE v
InputAfter(v, out) ==
    IF Oids(v) \cap Oids(out) = {} THEN v ELSE WrittenThrough(v, Objects(out))

----------------------------------------------------------------------------
(* deidentify_resource called on documents.  A document is a mapping with  *)
(* an optional resourceType and up to MaxFields of the fields below, no    *)
(* key twice.                                                              *)

MaxFields == 2

TypeChoices == {<<>>,
                <<KV(K_resourceType, Str(T_Patient))>>,
                <<KV(K_resourceType, Str(<<"O", "r", "g", "a", "n", "i", "z", "a", "t", "i", "o", "n">>))>>,
                <<KV(K_resourceType, Str(<<"B", "a", "s", "i", "c">>))>>,
                <<KV(K_resourceType, Str(T_Star))>>}

Fields == <<
    KV(K_id, Str(<<"p", "1">>)),
    KV(K_id, Num(5)),
    KV(K_identifier, List(2, <<
        Dict(3, <<KV(K_system, Str(S_mrn1)), KV(K_value, Str(S_12345)),
                  KV(K_use, Str(<<"o", "l", "d">>))>>),
        Dict(4, <<KV(K_system, Str(S_other)), KV(K_value, Str(<<"x">>))>>)>>)),
    KV(K_identifier, Dict(5, <<KV(K_system, Str(S_mrn2)), KV(K_value, Num(7))>>)),
    KV(K_identifier, List(6, <<
        Dict(7, <<KV(K_value, Str(S_12345))>>),
        Dict(8, <<KV(K_system, Str(<<>>)), KV(K_value, Str(<<"y">>))>>),
        Dict(9, <<KV(K_system, Str(S_mrn1))>>)>>)),
    KV(K_identifier, Dict(10, <<KV(K_system, Str(S_other)), KV(K_value, Str(<<"z">>))>>)),
    KV(K_identifier, Str(<<"a", "b", "c">>)),
    KV(K_identifier, List(11, <<Null>>)),
    KV(K_name, Str(<<"2", "0", "2", "4", "-", "0", "1", "-", "0", "1">>)),
    KV(K_birthDate, Str(<<"1", "9", "3", "6", "-", "0", "4", "-", "1", "2">>)),
    KV(K_birthDate, Str(<<"1", "9", "3", "7", "-", "0", "4", "-", "1", "2">>)),
    KV(K_birthDate, Str(<<"1", "9", "2", "0">>)),
    KV(K_birthDate, Str(<<"u", "n", "k", "n", "o", "w", "n">>)),
    KV(<<"p", "e", "r", "i", "o", "d">>, Dict(12, <<
        KV(<<"s", "t", "a", "r", "t">>, Str(<<"2", "0", "2", "4", "-", "0", "1", "-", "0", "1", "T", "0", "0", ":", "0", "0", ":", "0", "0", "Z">>)),
        KV(<<"e", "n", "d">>, Str(<<"2", "0", "2", "4", "-", "1", "2", "-", "3", "1", "T", "2", "3", ":", "5", "9", ":", "5", "9", ".", "5", "+", "0", "2", ":", "0", "0">>))>>)),
    KV(<<"e", "v", "e", "n", "t">>, List(13, <<Str(<<"2", "0", "2", "4", "-", "0", "1", "-", "0", "1">>)>>)),
    KV(<<"c", "o", "n", "t", "a", "i", "n", "e", "d">>, List(14, <<
        Dict(15, <<KV(K_resourceType, Str(T_Patient)),
                   KV(K_name, Str(<<"B", "o", "b">>)),
                   KV(K_birthDate, Str(<<"1", "9", "3", "7", "-", "0", "1", "-", "0", "1">>)),
                   KV(<<"d", "e", "c", "e", "a", "s", "e", "d", "D", "a", "t", "e", "T", "i", "m", "e">>, Str(<<"2", "0", "2", "0", "-", "0", "2", "-", "2", "9", "T", "1", "0", ":", "3", "0", ":", "0", "0", "-", "0", "7", ":", "0", "0">>)),
                   KV(K_identifier, List(16, <<
                       Dict(17, <<KV(K_system, Str(S_other)), KV(K_value, Str(<<"q">>))>>),
                       Dict(18, <<KV(K_system, Str(S_mrn2)), KV(K_value, Str(<<"r">>))>>)>>))>>)>>)),
    KV(<<"a", "d", "d", "r", "e", "s", "s">>, Dict(19, <<
        KV(<<"c", "i", "t", "y">>, Str(<<"O", "s", "l", "o">>)),
        KV(<<"p", "e", "r", "i", "o", "d">>, Dict(20, <<KV(<<"s", "t", "a", "r", "t">>, Str(<<"2", "0", "0", "1", "-", "0", "5">>))>>))>>)),
    KV(K_subject, Dict(21, <<KV(K_reference, Str(<<"P", "a", "t", "i", "e", "n", "t", "/", "p", "1">>))>>)),
    KV(K_subject, Str(<<"P", "a", "t", "i", "e", "n", "t", "/", "p", "1">>)),
    KV(K_subject, Dict(22, <<KV(K_reference, Num(5))>>)),
    KV(K_patient, Str(<<"P", "a", "t", "i", "e", "n", "t", "/", "p", "1">>)),
    KV(<<"i", "s", "s", "u", "e", "d">>, Str(<<"9", "9", "9", "9", "-", "1", "2", "-", "3", "1">>)),
    KV(<<"s", "t", "a", "r", "t">>, Str(<<"2", "0", "2", "4">>))
>>

RECURSIVE IndexSets(_)
IndexSets(k) == IF k = 0 THEN {{}}
                ELSE LET prev == IndexSets(k - 1)
                     IN prev \cup {s \cup {i} : s \in prev, i \in 1..Len(Fields)}
FieldChoices == {s \in IndexSets(MaxFields) :
                    \A i, j \in s : i # j => Fields[i].k # Fields[j].k}
RECURSIVE InOrder(_)
InOrder(s) == IF s = {} THEN <<>>
              ELSE LET i == CHOOSE j \in s : \A k \in s : j <= k
                   IN <<Fields[i]>> \o InOrder(s \ {i})
Documents == {Dict(1, ty \o InOrder(s)) : ty \in TypeChoices, s \in FieldChoices}

TreeSalts == {<<"s">>}
ShiftChoices == {NoShift, Shift(0), Shift(10), Shift(0 - MaxShiftDays)}
CurrentYears == {2026, 2027}

Init == /\ PHI_POLICY = BuiltinPolicy
        /\ HASHED_IDENTIFIER_SYSTEMS = BuiltinHashedSystems
        /\ given \in Documents
        /\ resource = given
        /\ salt \in TreeSalts
        /\ shift_days \in ShiftChoices
        /\ today_year \in CurrentYears
        /\ safe_harbor = FALSE
        /\ output = [called |-> FALSE]
        /\ peer = [t |-> "null"] /\ peer_output = [called |-> FALSE]
        /\ shaTable = NoTable
        /\ IdleDate /\ IdleHash /\ IdleOffset

\* out = deidentify_resource(resource, salt, shift_days, safe_harbor=sh)
Deidentify(sh) ==
    \E r \in {DeidentifyResource(resource, salt, shift_days, sh, PHI_POLICY,
                                 HASHED_IDENTIFIER_SYSTEMS, today_year)} :
       /\ safe_harbor' = sh
       /\ output' = [called |-> TRUE, raised |-> (r.v.t = "raise"), doc |-> r.v]
       /\ PHI_POLICY' = r.table
       /\ resource' = InputAfter(resource, r.v)
       /\ UNCHANGED <<HASHED_IDENTIFIER_SYSTEMS, given, salt, shift_days, today_year,
                      peer, peer_output, shaTable, dateVars, hashVars, offVars>>

Next == \E sh \in BOOLEAN : Deidentify(sh)
Spec == Init /\ [][Next]_vars

Returned_ == output.called /\ ~output.raised


----------------------------------------------------------------------------
(* What the claims speak of: the mappings of the caller's document with    *)
(* the mappings the call returned for them, and the strip set of a mapping *)
(* read off the built-in table.                                            *)

\* the pairs <<mapping of doc, mapping returned for it>>, at every depth;
\* the contents of "identifier" are masked entries, not document mappings
RECURSIVE NodePairs(_, _)
NodePairs(in, out) ==
    IF in.t = "dict" /\ out.t = "dict"
    THEN {<<in, out>>} \cup
         UNION {NodePairs(Get(in, out.items[i].k), out.items[i].v) :
                    i \in {j \in 1..Len(out.items) : out.items[j].k # K_identifier}}
    ELSE IF in.t = "list" /\ out.t = "list" /\ Len(in.elems) = Len(out.elems)
    THEN UNION {NodePairs(in.elems[i], out.elems[i]) : i \in 1..Len(in.elems)}
    ELSE {}

\* PHI_POLICY[T] (empty for an unknown or absent T) plus the "*" entries,
\* minus birthDate under safe_harbor
StripKeys(node, sh) ==
    LET rt == Get(node, K_resourceType)
        own == IF rt.t = "str" /\ rt.s \in PolicyTags THEN Range(BuiltinPolicy[rt.s]) ELSE {}
    IN (own \cup Range(BuiltinPolicy[T_Star])) \ (IF sh THEN {K_birthDate} ELSE {})

IdentifierEntries(node) ==
    IF ~HasKey(node, K_identifier) THEN <<>>
    ELSE LET v == Get(node, K_identifier) IN IF v.t = "list" THEN v.elems ELSE <<v>>
AllowedSystem(e) == /\ e.t = "dict"
                    /\ Get(e, K_system).t = "str"
                    /\ Get(e, K_system).s \in BuiltinHashedSystems
AllowedCount(es) == Cardinality({j \in 1..Len(es) : AllowedSystem(es[j])})

\* C1: at every depth, "identifier" in the output holds nothing that comes
\* from an input identifier whose system is absent, empty or outside
\* HASHED_IDENTIFIER_SYSTEMS, verbatim or masked: each entry carries an
\* allowlisted system and is the mask of an input entry with that system.
C1_IdentifierAllowlist ==
    Returned_ =>
        \A pr \in NodePairs(given, output.doc) :
            LET inE == IdentifierEntries(pr[1])
                outE == IdentifierEntries(pr[2])
            IN /\ Len(outE) <= AllowedCount(inE)
               /\ \A i \in 1..Len(outE) :
                     /\ AllowedSystem(outE[i])
                     /\ \E j \in 1..Len(inE) :
                           /\ AllowedSystem(inE[j])
                           /\ Get(inE[j], K_system) = Get(outE[i], K_system)
                           /\ Get(outE[i], K_value) =
                                  Str(Sha256Hash(PyStr(Get(inE[j], K_value)), salt))
               /\ \A j \in 1..Len(inE) :
                     ~AllowedSystem(inE[j]) =>
                         \A i \in 1..Len(outE) :
                             /\ outE[i] # inE[j]
                             /\ Get(outE[i], K_system) # Get(inE[j], K_system)

\* a nested mapping had an allowlisted and another identifier, and one entry
\* came out
C1_Witness ==
    /\ Returned_
    /\ \E pr \in NodePairs(given, output.doc) :
          /\ pr[1].oid # 1
          /\ Len(IdentifierEntries(pr[1])) = 2
          /\ AllowedCount(IdentifierEntries(pr[1])) = 1
          /\ Len(IdentifierEntries(pr[2])) = 1

\* C2: for every mapping of the input, of type T, no key of T's effective
\* strip set other than "identifier" is a key of the mapping returned for it.
C2_StrippedKeysAbsent ==
    Returned_ =>
        \A pr \in NodePairs(given, output.doc) :
            \A key \in StripKeys(pr[1], safe_harbor) \ {K_identifier} :
                ~HasKey(pr[2], key)

\* a Patient had a name, top level or nested, and under safe_harbor a
\* birthDate that stayed
C2_Witness ==
    /\ Returned_ /\ safe_harbor
    /\ \E pr \in NodePairs(given, output.doc) :
          /\ Get(pr[1], K_resourceType) = Str(T_Patient)
          /\ HasKey(pr[1], K_name) /\ HasKey(pr[1], K_birthDate)
          /\ HasKey(pr[2], K_birthDate)

\* the offset of a call without safe_harbor
EffectiveOffset ==
    IF shift_days.none THEN DeterministicOffset(salt, PatientId(given).s)
    ELSE shift_days.n

\* every string of in that parses as a temporal value and is not under a
\* stripped field is, in out, that value moved by d days
RECURSIVE DatesShifted(_, _, _)
DatesShifted(in, out, d) ==
    IF in.t = "dict"
    THEN /\ out.t = "dict"
         /\ \A i \in 1..Len(in.items) :
               \/ in.items[i].k \in StripKeys(in, FALSE)
               \/ /\ HasKey(out, in.items[i].k)
                  /\ DatesShifted(in.items[i].v, Get(out, in.items[i].k), d)
    ELSE IF in.t = "list"
    THEN /\ out.t = "list" /\ Len(out.elems) = Len(in.elems)
         /\ \A i \in 1..Len(in.elems) : DatesShifted(in.elems[i], out.elems[i], d)
    ELSE IF in.t = "str" /\ ParseFhirDate(in.s).dt.ok
    THEN LET r == ShiftDate(in.s, d, FALSE) IN ~r.raised /\ out = Str(r.s)
    ELSE TRUE

\* C3: outside safe-harbor mode every date, dateTime and instant of the
\* document is shifted by the offset, wherever it occurs in the tree (a field
\* of a nested mapping or an element of a sequence), stripped fields aside.
C3_EveryDateShifted ==
    (Returned_ /\ ~safe_harbor) => DatesShifted(given, output.doc, EffectiveOffset)

\* the fields the rewriter takes for dates (key suffix or shape) are shifted
RECURSIVE DateFieldsShifted(_, _, _)
DateFieldsShifted(in, out, d) ==
    IF in.t = "dict"
    THEN /\ out.t = "dict"
         /\ \A i \in 1..Len(in.items) :
               LET key == in.items[i].k
                   val == in.items[i].v
               IN \/ key \in StripKeys(in, FALSE)
                  \/ IF val.t = "str"
                     THEN (LooksLikeDate(key, val.s) /\ ParseFhirDate(val.s).dt.ok)
                              => Get(out, key) = Str(ShiftDate(val.s, d, FALSE).s)
                     ELSE HasKey(out, key) /\ DateFieldsShifted(val, Get(out, key), d)
    ELSE IF in.t = "list"
    THEN /\ out.t = "list" /\ Len(out.elems) = Len(in.elems)
         /\ \A i \in 1..Len(in.elems) : DateFieldsShifted(in.elems[i], out.elems[i], d)
    ELSE TRUE
C3_DateFieldsShifted ==
    (Returned_ /\ ~safe_harbor) => DateFieldsShifted(given, output.doc, EffectiveOffset)

\* every date-shaped field of in that parses and is not stripped is, in out,
\* the 4-digit year of the original; with binned, a birthDate of year
\* Y <= year_now - 90 is "1900" instead
RECURSIVE YearsOnly(_, _, _, _)
YearsOnly(in, out, binned, year_now) ==
    IF in.t = "dict"
    THEN /\ out.t = "dict"
         /\ \A i \in 1..Len(in.items) :
               LET key == in.items[i].k
                   val == in.items[i].v
               IN \/ key \in StripKeys(in, TRUE)
                  \/ IF val.t = "str"
                     THEN (LooksLikeDate(key, val.s) /\ ParseFhirDate(val.s).dt.ok) =>
                              LET y == ParseFhirDate(val.s).dt.y IN
                              Get(out, key) =
                                  Str(IF binned /\ key = K_birthDate /\ y <= year_now - 90
                                      THEN <<"1", "9", "0", "0">> ELSE Pad(y, 4))
                     ELSE HasKey(out, key) /\ YearsOnly(val, Get(out, key), binned, year_now)
    ELSE IF in.t = "list"
    THEN /\ out.t = "list" /\ Len(out.elems) = Len(in.elems)
         /\ \A i \in 1..Len(in.elems) :
               YearsOnly(in.elems[i], out.elems[i], binned, year_now)
    ELSE TRUE

\* C5 as stated: under safe_harbor, for every shift_days, every date-shaped
\* field that parses is replaced by the bare 4-digit year of the original.
C5_YearOfOriginal ==
    (Returned_ /\ safe_harbor) => YearsOnly(given, output.doc, FALSE, today_year)

\* C5 as amended: under safe_harbor, for every shift_days, every date-shaped
\* field that parses and is not stripped is replaced by the 4-digit year of
\* the original, except a birthDate of year Y <= C - 90, which is "1900".
C5_YearOfOriginalOrBinned ==
    (Returned_ /\ safe_harbor) => YearsOnly(given, output.doc, TRUE, today_year)

\* a safe_harbor call with a non-zero shift_days turned a dateTime of a
\* nested mapping into its year
C5_Witness ==
    /\ Returned_ /\ safe_harbor /\ ~shift_days.none /\ shift_days.n = 0 - MaxShiftDays
    /\ HasKey(given, <<"p", "e", "r", "i", "o", "d">>)
    /\ Get(Get(given, <<"p", "e", "r", "i", "o", "d">>), <<"s", "t", "a", "r", "t">>) = Str(<<"2", "0", "2", "4", "-", "0", "1", "-", "0", "1", "T", "0", "0", ":", "0", "0", ":", "0", "0", "Z">>)
    /\ Get(Get(output.doc, <<"p", "e", "r", "i", "o", "d">>), <<"s", "t", "a", "r", "t">>) = Str(<<"2", "0", "2", "4">>)

\* C6: under safe_harbor a birthDate that parses with year Y comes out as
\* "1900" when Y <= C - 90 and as the 4-digit Y when Y > C - 90, C being the
\* current year.
C6_AgeBinning ==
    (Returned_ /\ safe_harbor) =>
        \A pr \in NodePairs(given, output.doc) :
            LET b == Get(pr[1], K_birthDate) IN
            (b.t = "str" /\ ParseFhirDate(b.s).dt.ok) =>
                LET y == ParseFhirDate(b.s).dt.y IN
                Get(pr[2], K_birthDate) =
                    Str(IF y <= today_year - 90 THEN <<"1", "9", "0", "0">> ELSE Pad(y, 4))

\* a Patient born exactly 90 years before the current year came out as "1900"
C6_Witness ==
    /\ Returned_ /\ safe_harbor
    /\ Get(given, K_resourceType) = Str(T_Patient)
    /\ Get(given, K_birthDate).t = "str"
    /\ ParseFhirDate(Get(given, K_birthDate).s).dt.ok
    /\ ParseFhirDate(Get(given, K_birthDate).s).dt.y = today_year - 90
    /\ Get(output.doc, K_birthDate) = Str(<<"1", "9", "0", "0">>)

\* C8: deidentify_resource returns a document for every mapping, whatever
\* JSON values its fields hold; it never raises.
C8_NeverRaises == output.called => ~output.raised

\* C9: after any calls, the caller's document is as it was built, PHI_POLICY
\* and HASHED_IDENTIFIER_SYSTEMS are as at import, and no mapping or list of
\* the output is an object of the input.
C9_NothingShared ==
    /\ resource = given
    /\ PHI_POLICY = BuiltinPolicy
    /\ HASHED_IDENTIFIER_SYSTEMS = BuiltinHashedSystems
    /\ Returned_ => Oids(output.doc) \cap Oids(given) = {}

\* a safe_harbor call on a Patient with a birthDate and nested objects returned
C9_Witness ==
    /\ Returned_ /\ safe_harbor
    /\ Get(given, K_resourceType) = Str(T_Patient)
    /\ HasKey(given, K_birthDate)
    /\ HasKey(output.doc, K_birthDate)
    /\ Cardinality(Oids(given)) > 1
    /\ Cardinality(Oids(output.doc)) = Cardinality(Oids(given))

----------------------------------------------------------------------------
(* One run over two documents of the same patient: the Patient document    *)
(* and a document that refers to it, both without a fixed offset.          *)
(* shaTable gives the first four digest bytes of the two strings the       *)
(* offsets are derived from.                                               *)

SubjectIds == {<<"p", "1">>, <<"1", "2", "3">>}
PatientRef(P) == <<"P", "a", "t", "i", "e", "n", "t", "/">> \o P
K_deceasedDateTime == <<"d", "e", "c", "e", "a", "s", "e", "d", "D", "a", "t", "e", "T", "i", "m", "e">>
K_effectiveDateTime == <<"e", "f", "f", "e", "c", "t", "i", "v", "e", "D", "a", "t", "e", "T", "i", "m", "e">>
SubjectDate == <<"2", "0", "2", "4", "-", "0", "1", "-", "0", "1">>
PatientDoc(P) ==
    Dict(1, <<KV(K_resourceType, Str(T_Patient)), KV(K_id, Str(P)),
              KV(K_deceasedDateTime, Str(SubjectDate))>>)
PeerRefs(P) == {KV(K_subject, Str(PatientRef(P))),
                KV(K_subject, Dict(3, <<KV(K_reference, Str(PatientRef(P)))>>)),
                KV(K_patient, Str(PatientRef(P)))}
PeerDocs(P) ==
    {Dict(2, <<KV(K_resourceType, Str(<<"O", "b", "s", "e", "r", "v", "a", "t", "i", "o", "n">>)), f,
               KV(K_effectiveDateTime, Str(SubjectDate))>>) : f \in PeerRefs(P)}

InitSubject ==
    \E P \in SubjectIds :
        /\ PHI_POLICY = BuiltinPolicy
        /\ HASHED_IDENTIFIER_SYSTEMS = BuiltinHashedSystems
        /\ given = PatientDoc(P)
        /\ resource = given
        /\ peer \in PeerDocs(P)
        /\ salt \in TreeSalts
        /\ shift_days = NoShift
        /\ today_year \in CurrentYears
        /\ safe_harbor = FALSE
        /\ output = [called |-> FALSE]
        /\ peer_output = [called |-> FALSE]
        /\ shaTable \in [{s \o P : s \in TreeSalts} \cup {s \o PatientRef(P) : s \in TreeSalts}
                            -> ByteQuads]
        /\ IdleDate /\ IdleHash /\ IdleOffset

\* peer_out = deidentify_resource(peer, salt, shift_days)
DeidentifyPeer ==
    \E r \in {DeidentifyResource(peer, salt, shift_days, FALSE, PHI_POLICY,
                                 HASHED_IDENTIFIER_SYSTEMS, today_year)} :
       /\ peer_output' = [called |-> TRUE, raised |-> (r.v.t = "raise"), doc |-> r.v]
       /\ PHI_POLICY' = r.table
       /\ peer' = InputAfter(peer, r.v)
       /\ UNCHANGED <<HASHED_IDENTIFIER_SYSTEMS, resource, given, salt, shift_days,
                      today_year, safe_harbor, output, shaTable, dateVars, hashVars,
                      offVars>>

NextSubject == Deidentify(FALSE) \/ DeidentifyPeer
SpecSubject == InitSubject /\ [][NextSubject]_vars

BothReturned == Returned_ /\ peer_output.called /\ ~peer_output.raised

\* C11: with the same secret, no fixed offset and safe_harbor false, the
\* Patient document with id P and a document whose subject or patient
\* reference is "Patient/P" are shifted by the same number of days: the same
\* date comes out as the same date in both.
C11_SameShiftPerSubject ==
    BothReturned =>
        Get(output.doc, K_deceasedDateTime) = Get(peer_output.doc, K_effectiveDateTime)

\* each of the two documents is shifted by the offset derived from the string
\* it carries itself: the id for the Patient, the whole reference for the other
C11_ShiftedByOwnString ==
    BothReturned =>
        /\ Get(output.doc, K_deceasedDateTime) =
              Str(ShiftDate(SubjectDate,
                            DeterministicOffset(salt, Get(given, K_id).s), FALSE).s)
        /\ Get(peer_output.doc, K_effectiveDateTime) =
              Str(ShiftDate(SubjectDate,
                            DeterministicOffset(salt, PatientRef(Get(given, K_id).s)),
                            FALSE).s)

----------------------------------------------------------------------------
(* Patient documents whose birthDate holds every kind of value: dates the  *)
(* codec parses, strings it does not, and values that are not strings.     *)

BirthStringsParsed == {<<"1", "9", "3", "6", "-", "0", "4", "-", "1", "2">>, <<"1", "9", "3", "7", "-", "0", "4", "-", "1", "2">>, <<"1", "9", "3", "6">>, <<"1", "9", "3", "7", "-", "0", "4">>,
                       <<"0", "9", "9", "9", "-", "0", "1", "-", "0", "1">>, <<"1", "9", "3", "7", "-", "0", "4", "-", "1", "2", "T", "1", "0", ":", "3", "0", ":", "0", "0", "Z">>}
BirthStringsUnparsed == {<<"u", "n", "k", "n", "o", "w", "n">>, <<"0", "4", "/", "1", "2", "/", "1", "9", "3", "6">>, <<"1", "9", "3", "6", "-", "4", "-", "1", "2">>, <<>>}
BirthValues ==
    {Str(s) : s \in BirthStringsParsed \cup BirthStringsUnparsed}
    \cup {Null, Num(19360412),
          List(4, <<Str(<<"1", "9", "3", "6", "-", "0", "4", "-", "1", "2">>)>>),
          Dict(4, <<KV(K_value, Str(<<"1", "9", "3", "6", "-", "0", "4", "-", "1", "2">>))>>)}
BirthPatient(oid, v) ==
    Dict(oid, <<KV(K_resourceType, Str(T_Patient)), KV(K_birthDate, v)>>)
BirthDocuments ==
    {BirthPatient(1, v) : v \in BirthValues}
    \cup {Dict(1, <<KV(K_resourceType, Str(<<"B", "a", "s", "i", "c">>)),
                    KV(<<"c", "o", "n", "t", "a", "i", "n", "e", "d">>, List(2, <<BirthPatient(3, v)>>))>>) :
             v \in BirthValues}

InitBirth == /\ PHI_POLICY = BuiltinPolicy
             /\ HASHED_IDENTIFIER_SYSTEMS = BuiltinHashedSystems
             /\ given \in BirthDocuments
             /\ resource = given
             /\ salt \in TreeSalts
             /\ shift_days \in ShiftChoices
             /\ today_year \in CurrentYears
             /\ safe_harbor = FALSE
             /\ output = [called |-> FALSE]
             /\ peer = [t |-> "null"] /\ peer_output = [called |-> FALSE]
             /\ shaTable = NoTable
             /\ IdleDate /\ IdleHash /\ IdleOffset

SpecBirth == InitBirth /\ [][Next]_vars

\* "YYYY": a string of exactly four digits
IsYearString(v) == v.t = "str" /\ Len(v.s) = 4 /\ AllDigits(v.s)

\* C12: under safe_harbor, whatever a Patient's birthDate holds (a date that
\* parses, a string that does not, a value that is not a string), the output
\* birthDate is absent or a string of exactly four digits.
C12_BirthDateYearOnly ==
    (Returned_ /\ safe_harbor) =>
        \A pr \in NodePairs(given, output.doc) :
            (Get(pr[1], K_resourceType) = Str(T_Patient) /\ HasKey(pr[2], K_birthDate))
                => IsYearString(Get(pr[2], K_birthDate))

\* the same for the birthDate strings the codec parses; every other value
\* goes through the recursion and comes out as the rewriter leaves it
C12_ParsedBirthDateYearOnly ==
    (Returned_ /\ safe_harbor) =>
        \A pr \in NodePairs(given, output.doc) :
            LET b == Get(pr[1], K_birthDate) IN
            (Get(pr[1], K_resourceType) = Str(T_Patient) /\ HasKey(pr[1], K_birthDate)) =>
                IF b.t = "str" /\ ParseFhirDate(b.s).dt.ok
                THEN IsYearString(Get(pr[2], K_birthDate))
                ELSE /\ HasKey(pr[2], K_birthDate)
                     /\ b.t \in {"str", "num", "null", "list"}
                            => Get(pr[2], K_birthDate).t = b.t
                     /\ b.t \in {"str", "num", "null"} => Get(pr[2], K_birthDate) = b

====
